---------------------------- MODULE Spec2Model ----------------------------
(***************************************************************************)
(* A model of bot.py, the daily digest bot: feed entries are fingerprinted, *)
(* scored, deduplicated, routed into a gaming and a general pool, ranked,   *)
(* padded to three per section, formatted and delivered to Telegram.        *)
(*                                                                          *)
(* Text is a sequence of one-character strings, so that whitespace          *)
(* normalisation, query stripping, lower-casing, substring search and       *)
(* concatenation are computed character by character as the code does.      *)
(***************************************************************************)
EXTENDS Integers, Sequences, FiniteSets, TLC

VARIABLES
    pc,            \* position of the run (or of the function under study)
    now,           \* wall clock read by score_item, in hours
    feeds,         \* what each configured feed URL answers
    env,           \* how the summarizer and the two shorteners answer in this run
    general_all,   \* build_and_send: entries fetched from the general feeds
    mobile_all,    \* build_and_send: entries fetched from the gaming feeds
    siphoned,      \* build_and_send: keyword matches taken out of general_all
    gaming_pool,
    general_pool,
    top_gaming,
    top_general,
    general_added, \* the entries the padding of top_general appended
    msg,           \* the digest handed to send_telegram_message
    attempt,       \* send_telegram_message: posts made so far
    delivered,     \* posts Telegram accepted
    fn_in,         \* arguments of the function under study
    fn_out         \* its result

vars == <<pc, now, feeds, env, general_all, mobile_all, siphoned, gaming_pool,
          general_pool, top_gaming, top_general, general_added, msg, attempt,
          delivered, fn_in, fn_out>>

runVars == <<now, feeds, env, general_all, mobile_all, siphoned, gaming_pool,
             general_pool, top_gaming, top_general, general_added, msg, attempt,
             delivered>>

-----------------------------------------------------------------------------
(* Generic helpers                                                          *)

Min(a, b) == IF a < b THEN a ELSE b

Max(a, b) == IF a > b THEN a ELSE b

Range(s) == {s[i] : i \in 1..Len(s)}

\* All sequences over S of length at most n.
SeqsUpTo(S, n) == UNION {[1..k -> S] : k \in 0..n}

None == "None"

-----------------------------------------------------------------------------
(* Text                                                                     *)

\* The characters that Python's \s and str.strip() treat as whitespace
\* (those the model's texts use).
IsSpace(c) == c \in {" ", "\t", "\n"}

RECURSIVE LStrip(_)
LStrip(s) ==
    IF s # <<>> /\ IsSpace(Head(s)) THEN LStrip(Tail(s)) ELSE s

RECURSIVE RStrip(_)
RStrip(s) ==
    IF s # <<>> /\ IsSpace(s[Len(s)]) THEN RStrip(SubSeq(s, 1, Len(s) - 1)) ELSE s

\* str.strip()
Strip(s) == RStrip(LStrip(s))

\* re.sub(r"\s+", " ", s): every maximal run of whitespace becomes one space.
RECURSIVE CollapseSpaces(_)
CollapseSpaces(s) ==
    IF s = <<>> THEN <<>>
    ELSE IF IsSpace(Head(s)) THEN <<" ">> \o CollapseSpaces(LStrip(s))
    ELSE <<Head(s)>> \o CollapseSpaces(Tail(s))

\* normalize_text(s): (s or "") makes an absent text the empty text, which is
\* how the model writes an absent field already.
normalize_text(s) == Strip(CollapseSpaces(s))

\* Index of the first "?" of u, or Len(u) + 1 when there is none.
RECURSIVE FirstQuery(_, _)
FirstQuery(u, i) ==
    IF i > Len(u) \/ u[i] = "?" THEN i ELSE FirstQuery(u, i + 1)

\* canonical_url(u): u.split("?", 1)[0]; an empty u is returned as it is.
canonical_url(u) ==
    IF u = <<>> THEN u ELSE SubSeq(u, 1, FirstQuery(u, 1) - 1)

UpperLetters == <<"A","B","C","D","E","F","G","H","I","J","K","L","M",
                  "N","O","P","Q","R","S","T","U","V","W","X","Y","Z">>

LowerLetters == <<"a","b","c","d","e","f","g","h","i","j","k","l","m",
                  "n","o","p","q","r","s","t","u","v","w","x","y","z">>

LowerChar(c) ==
    IF \E i \in 1..Len(UpperLetters) : UpperLetters[i] = c
    THEN LowerLetters[CHOOSE i \in 1..Len(UpperLetters) : UpperLetters[i] = c]
    ELSE c

\* str.lower()
Lower(s) == [i \in 1..Len(s) |-> LowerChar(s[i])]

\* k in text (substring search)
Contains(text, k) ==
    \E i \in 1..(Len(text) - Len(k) + 1) : SubSeq(text, i, i + Len(k) - 1) = k

\* text.startswith(p)
StartsWith(text, p) ==
    Len(text) >= Len(p) /\ SubSeq(text, 1, Len(p)) = p

-----------------------------------------------------------------------------
(* Fingerprint and score                                                    *)

\* hashlib.sha256(...).hexdigest()[:16], taken as injective on its input: the
\* digest of a text is represented by the text it digests, so two digests
\* are equal exactly when the hashed texts are.
Sha256Hex16(text) == text

\* hash_item(title, link): the title and the canonical link are concatenated
\* without a separator before hashing.
hash_item(title, link) == Sha256Hex16(title \o canonical_url(link))

\* The fingerprint pick_top and pad_to_three compute for an entry.
Fingerprint(e) == hash_item(normalize_text(e.title), canonical_url(e.link))

\* pick_top's test "if not title or not link: continue", negated.
IsValid(e) == normalize_text(e.title) # <<>> /\ canonical_url(e.link) # <<>>

RecencySentinel == 9999

\* Scores are kept as integers: the float score times ScoreScale. ScoreScale
\* is 400 * lcm(1..6, 9999), so that 10 / recency_hours and len / 400 are exact
\* for every recency the model reaches.
ScoreScale == 400 * 199980

\* recency_hours of score_item: 9999 unless published_parsed is present and
\* convertible, and then the hours elapsed, at least 1.
recency_hours(e, clock) ==
    IF e.published # <<>> THEN Max(1, clock - e.published[1]) ELSE RecencySentinel

\* score_item(entry), with the clock it reads given as `clock`. The calls of
\* one run are microseconds apart and read the same hour: a run holds the
\* clock at one value, and runs differ in it.
score_item(e, clock) ==
    (10 * ScoreScale) \div recency_hours(e, clock)
    + (IF Len(e.title) > 0 THEN ScoreScale ELSE 0)
    + Min((3 * ScoreScale) \div 2, (Len(e.summary) * ScoreScale) \div 400)

-----------------------------------------------------------------------------
(* Entries                                                                  *)

\* published_parsed: <<h>> for an entry published at hour h, and NoDate when
\* the field is absent (or time.mktime cannot convert it).
NoDate == <<>>

\* A feed entry: the fields the code reads. An absent title, link or summary
\* is the empty text, as e.get(key, "") makes it.
Entry(title, link, summary, published) ==
    [title |-> title, link |-> link, summary |-> summary, published |-> published]

-----------------------------------------------------------------------------
(* pick_top                                                                 *)

\* Mutation of Replaces: a later entry of equal score takes the place.
ReplacesOnTie(s, old) == s >= old

\* pick_top, line 229: an entry takes the place of the one kept for its
\* fingerprint only when its score is strictly higher.
Replaces(s, old) == s > old

\* best[h] = (s, e) when h is new or Replaces. `best` is the dict in insertion
\* order: a replaced value keeps the position of its key.
Keep(best, h, s, e) ==
    IF \E j \in 1..Len(best) : best[j].h = h
    THEN LET j == CHOOSE k \in 1..Len(best) : best[k].h = h
         IN  IF Replaces(s, best[j].s)
             THEN [best EXCEPT ![j] = [h |-> h, s |-> s, e |-> e]]
             ELSE best
    ELSE Append(best, [h |-> h, s |-> s, e |-> e])

\* The loop of pick_top from item i on.
RECURSIVE DedupeFrom(_, _, _, _)
DedupeFrom(items, i, best, clock) ==
    IF i > Len(items) THEN best
    ELSE LET e     == items[i]
             title == normalize_text(e.title)
             link  == canonical_url(e.link)
         IN  IF title = <<>> \/ link = <<>>
             THEN DedupeFrom(items, i + 1, best, clock)
             ELSE DedupeFrom(items, i + 1,
                             Keep(best, hash_item(title, link), score_item(e, clock), e),
                             clock)

\* Mutation of StaysAhead: the sort is ascending.
StaysAheadAscending(sx, se) == sx <= se

\* sorted(..., reverse=True): an element already placed stays ahead of a later
\* one when its key is at least as high (the sort is stable).
StaysAhead(sx, se) == sx >= se

\* Number of leading elements of `sorted` that stay ahead of key s.
RECURSIVE AheadCount(_, _, _)
AheadCount(sorted, s, clock) ==
    IF sorted # <<>> /\ StaysAhead(score_item(Head(sorted), clock), s)
    THEN 1 + AheadCount(Tail(sorted), s, clock)
    ELSE 0

\* sorted(seq, key=score_item, reverse=True)
RECURSIVE SortByScore(_, _, _)
SortByScore(seq, sorted, clock) ==
    IF seq = <<>> THEN sorted
    ELSE LET e == Head(seq)
             p == AheadCount(sorted, score_item(e, clock), clock)
         IN  SortByScore(Tail(seq),
                         SubSeq(sorted, 1, p) \o <<e>> \o SubSeq(sorted, p + 1, Len(sorted)),
                         clock)

\* Mutation of Take: one element too many.
TakeOneMore(ranked, want) == SubSeq(ranked, 1, Min(want + 1, Len(ranked)))

\* ranked[:want], for want >= 0
Take(ranked, want) == SubSeq(ranked, 1, Min(want, Len(ranked)))

\* pick_top(items, want), with the clock score_item reads.
pick_top(items, want, clock) ==
    LET best   == DedupeFrom(items, 1, <<>>, clock)
        ranked == SortByScore([i \in 1..Len(best) |-> best[i].e], <<>>, clock)
    IN  Take(ranked, want)

-----------------------------------------------------------------------------
(* pad_to_three                                                             *)

PadTarget == 3

\* Mutation of SeenAfter: the fingerprint of an appended entry is not recorded.
SeenAfterForgetful(seen, h) == seen

\* seen.add(h), line 249
SeenAfter(seen, h) == seen \cup {h}

\* The loop of pad_to_three from pool entry i on.
RECURSIVE PadFrom(_, _, _, _)
PadFrom(items, seen, pool, i) ==
    IF i > Len(pool) \/ Len(items) >= PadTarget THEN items
    ELSE LET e == pool[i]
             h == hash_item(normalize_text(e.title), canonical_url(e.link))
         IN  IF h \notin seen
             THEN PadFrom(Append(items, e), SeenAfter(seen, h), pool, i + 1)
             ELSE PadFrom(items, seen, pool, i + 1)

\* pad_to_three(items, pool)
pad_to_three(items, pool) ==
    PadFrom(items,
            {hash_item(normalize_text(items[i].title), canonical_url(items[i].link)) :
                 i \in 1..Len(items)},
            pool, 1)

-----------------------------------------------------------------------------
(* shorten_url                                                              *)

\* What a provider answers to requests.get: the call raises (exc is the
\* exception), or it returns a response with r.ok and r.text.
Raises(exc) == [kind |-> "raise", exc |-> exc, ok |-> FALSE, text |-> <<>>]

Response(ok, text) == [kind |-> "response", exc |-> "", ok |-> ok, text |-> text]

\* The exceptions requests.get raises; all are subclasses of Exception.
RequestExceptions == {"Timeout", "ConnectionError"}

\* Mutation of CaughtByExcept: only a timeout is caught.
CaughtTimeoutOnly(exc) == exc = "Timeout"

\* "except Exception: pass", lines 69 and 75
CaughtByExcept(exc) == exc \in RequestExceptions

Http == <<"h", "t", "t", "p">>

\* r.ok and r.text.startswith("http"), lines 67 and 73
Accepted(resp) == resp.ok /\ StartsWith(resp.text, Http)

\* One try block of shorten_url on a provider's answer: the value returned,
\* the exception that leaves the block, or neither (fall through).
TryProvider(resp) ==
    IF resp.kind = "raise"
    THEN [returns |-> FALSE, value |-> <<>>, raised |-> ~CaughtByExcept(resp.exc)]
    ELSE IF Accepted(resp)
    THEN [returns |-> TRUE, value |-> Strip(resp.text), raised |-> FALSE]
    ELSE [returns |-> FALSE, value |-> <<>>, raised |-> FALSE]

\* The body of shorten_url, lines 64-77: the providers contacted in order, the
\* value returned and whether an exception left the body.
ShortenBody(url, isgd, tiny) ==
    LET u     == canonical_url(url)
        first == TryProvider(isgd)
        next  == TryProvider(tiny)
    IN  IF first.returns \/ first.raised
        THEN [calls |-> <<"is.gd">>, ret |-> first.value, raised |-> first.raised]
        ELSE IF next.returns \/ next.raised
        THEN [calls |-> <<"is.gd", "tinyurl">>, ret |-> next.value, raised |-> next.raised]
        ELSE [calls |-> <<"is.gd", "tinyurl">>, ret |-> u, raised |-> FALSE]

ShortenAttempts == 3

\* @retry(stop=stop_after_attempt(3), ...), line 62: the body runs again while
\* it raises and fewer than three attempts were made; the providers answer
\* each attempt of one call alike.
RECURSIVE ShortenRetry(_, _, _, _, _)
ShortenRetry(url, isgd, tiny, n, calls) ==
    LET b == ShortenBody(url, isgd, tiny)
    IN  IF b.raised /\ n < ShortenAttempts
        THEN ShortenRetry(url, isgd, tiny, n + 1, calls \o b.calls)
        ELSE [calls |-> calls \o b.calls, ret |-> b.ret, raised |-> b.raised]

\* shorten_url(url)
shorten_url(url, isgd, tiny) == ShortenRetry(url, isgd, tiny, 1, <<>>)

-----------------------------------------------------------------------------
(* fetch_feeds                                                              *)

\* What feedparser.parse answers for one feed URL: it raises, or it gives
\* the feed's entries.
FeedFails == [ok |-> FALSE, entries |-> <<>>]

FeedGives(entries) == [ok |-> TRUE, entries |-> entries]

FeedCap == 30

\* fetch_feeds(feed_urls): the first 30 entries of every feed that answers,
\* in the order of the URLs; "except Exception: continue" skips a feed that
\* raises.
RECURSIVE fetch_feeds(_)
fetch_feeds(answers) ==
    IF answers = <<>> THEN <<>>
    ELSE (IF Head(answers).ok THEN Take(Head(answers).entries, FeedCap) ELSE <<>>)
             \o fetch_feeds(Tail(answers))

-----------------------------------------------------------------------------
(* Routing: the siphoning of build_and_send                                 *)

\* The keyword list of line 303.
Keywords ==
    { <<"m","o","b","i","l","e">>,
      <<"a","n","d","r","o","i","d">>,
      <<"i","o","s">>,
      <<"a","p","p"," ","s","t","o","r","e">>,
      <<"g","o","o","g","l","e"," ","p","l","a","y">>,
      <<"u","n","i","t","y">>,
      <<"r","o","b","l","o","x">>,
      <<"s","n","a","p","d","r","a","g","o","n">> }

\* Lines 302-303: the title, a space and the summary, lower-cased, hold a
\* keyword.
MatchesKeyword(e) ==
    LET text == Lower(e.title \o <<" ">> \o e.summary)
    IN  \E k \in Keywords : Contains(text, k)

\* Lines 300-304
RECURSIVE Siphon(_)
Siphon(pool) ==
    IF pool = <<>> THEN <<>>
    ELSE (IF MatchesKeyword(Head(pool)) THEN <<Head(pool)>> ELSE <<>>)
             \o Siphon(Tail(pool))

\* Mutation of NotIn: entries are compared by their link alone.
NotInByLink(e, list) == \A i \in 1..Len(list) : list[i].link # e.link

\* "e not in list": no element of the list equals e (dicts compare by value).
NotIn(e, list) == \A i \in 1..Len(list) : list[i] # e

\* [e for e in pool if e not in a and e not in b]
RECURSIVE Without(_, _, _)
Without(pool, a, b) ==
    IF pool = <<>> THEN <<>>
    ELSE (IF NotIn(Head(pool), a) /\ NotIn(Head(pool), b) THEN <<Head(pool)>> ELSE <<>>)
             \o Without(Tail(pool), a, b)

-----------------------------------------------------------------------------
(* summarize, format_item, build_message                                    *)

\* What the OpenAI call comes to: no API key, a request that raises or a
\* response without text (all give None), or a text.
OpenAiNone == [kind |-> "none", text |-> <<>>]

OpenAiText(text) == [kind |-> "text", text |-> text]

SummaryChars == 220

SummaryWords == 28

\* summarize_with_openai: None is written as the empty text, which summarize
\* treats alike ("s if s else ...").
summarize_with_openai(answer) ==
    IF answer.kind = "text" THEN Take(normalize_text(answer.text), SummaryChars) ELSE <<>>

\* The first word of a text without leading whitespace.
RECURSIVE FirstWord(_)
FirstWord(s) ==
    IF s = <<>> \/ IsSpace(Head(s)) THEN <<>> ELSE <<Head(s)>> \o FirstWord(Tail(s))

\* str.split(): the words of a text, split at runs of whitespace.
RECURSIVE Split(_)
Split(s) ==
    LET t == LStrip(s)
    IN  IF t = <<>> THEN <<>>
        ELSE <<FirstWord(t)>> \o Split(SubSeq(t, Len(FirstWord(t)) + 1, Len(t)))

\* " ".join(words)
RECURSIVE Join(_)
Join(words) ==
    IF words = <<>> THEN <<>>
    ELSE IF Len(words) = 1 THEN words[1]
    ELSE words[1] \o <<" ">> \o Join(Tail(words))

\* summarize(title, text)
summarize(text, answer) ==
    LET s == summarize_with_openai(answer)
    IN  IF s # <<>> THEN s ELSE Join(Take(Split(normalize_text(text)), SummaryWords))

\* html.unescape: the texts of the model hold no character reference.
HtmlUnescape(s) == s

\* format_item(e): the summary line, the link line, and whether an exception
\* left the call. The action line is a lookup in a fixed table and is left out.
format_item(e, answers) ==
    LET title  == normalize_text(e.title)
        link   == canonical_url(e.link)
        sum    == normalize_text(HtmlUnescape(e.summary))
        rawsum == IF sum # <<>> THEN sum ELSE title
        short  == shorten_url(link, answers.isgd, answers.tiny)
    IN  [one_liner |-> summarize(rawsum, answers.openai),
         short     |-> short.ret,
         raised    |-> short.raised]

\* build_message(gaming_items, general_items): the blocks of the two sections.
build_message(gaming_items, general_items, answers) ==
    [gaming  |-> [i \in 1..Len(gaming_items) |-> format_item(gaming_items[i], answers)],
     general |-> [i \in 1..Len(general_items) |-> format_item(general_items[i], answers)]]

-----------------------------------------------------------------------------
(* send_telegram_message                                                    *)

\* Mutation of GivesUp: a fourth attempt is made.
GivesUpLate(attempts) == attempts > 3

\* stop_after_attempt(3), line 278
GivesUp(attempts) == attempts >= 3

-----------------------------------------------------------------------------
(* build_and_send                                                           *)

Want == 3

\* Lines 295-297: the sources are loaded and both categories fetched.
Fetch ==
    /\ pc = "start"
    /\ general_all' = fetch_feeds(feeds.general)
    /\ mobile_all' = fetch_feeds(feeds.mobile)
    /\ pc' = "fetched"
    /\ UNCHANGED <<now, feeds, env, siphoned, gaming_pool, general_pool, top_gaming,
                   top_general, general_added, msg, attempt, delivered, fn_in, fn_out>>

\* Lines 299-307: the keyword matches of the general pool go to the gaming
\* pool, the rest stay.
Route ==
    /\ pc = "fetched"
    /\ siphoned' = Siphon(general_all)
    /\ gaming_pool' = mobile_all \o siphoned'
    /\ general_pool' = Without(general_all, siphoned', <<>>)
    /\ pc' = "routed"
    /\ UNCHANGED <<now, feeds, env, general_all, mobile_all, top_gaming, top_general,
                   general_added, msg, attempt, delivered, fn_in, fn_out>>

\* Lines 309-310
Select ==
    /\ pc = "routed"
    /\ top_gaming' = pick_top(gaming_pool, Want, now)
    /\ top_general' = pick_top(general_pool, Want, now)
    /\ pc' = "selected"
    /\ UNCHANGED <<now, feeds, env, general_all, mobile_all, siphoned, gaming_pool,
                   general_pool, general_added, msg, attempt, delivered, fn_in, fn_out>>

\* Lines 312-313
PadGaming ==
    /\ pc = "selected"
    /\ top_gaming' = IF Len(top_gaming) < 3
                     THEN pad_to_three(top_gaming, general_pool)
                     ELSE top_gaming
    /\ pc' = "gaming_padded"
    /\ UNCHANGED <<now, feeds, env, general_all, mobile_all, siphoned, gaming_pool,
                   general_pool, top_general, general_added, msg, attempt, delivered,
                   fn_in, fn_out>>

\* Lines 314-316
PadGeneral ==
    /\ pc = "gaming_padded"
    /\ top_general' = IF Len(top_general) < 3
                      THEN pad_to_three(top_general,
                                      Without(general_pool, top_general, top_gaming))
                      ELSE top_general
    /\ general_added' = SubSeq(top_general', Len(top_general) + 1, Len(top_general'))
    /\ pc' = "padded"
    /\ UNCHANGED <<now, feeds, env, general_all, mobile_all, siphoned, gaming_pool,
                   general_pool, top_gaming, msg, attempt, delivered, fn_in, fn_out>>

\* Line 318: the digest is built; an exception leaving format_item would end
\* the run here.
Build ==
    /\ pc = "padded"
    /\ msg' = build_message(top_gaming, top_general, env)
    /\ pc' = IF \E i \in 1..Len(msg'.gaming) : msg'.gaming[i].raised
             THEN "crashed"
             ELSE IF \E i \in 1..Len(msg'.general) : msg'.general[i].raised
             THEN "crashed"
             ELSE "sending"
    /\ UNCHANGED <<now, feeds, env, general_all, mobile_all, siphoned, gaming_pool,
                   general_pool, top_gaming, top_general, general_added, attempt,
                   delivered, fn_in, fn_out>>

\* Lines 287-289 within line 319: a post that Telegram accepts; the call
\* returns and the run ends.
SendOk ==
    /\ pc = "sending"
    /\ attempt' = attempt + 1
    /\ delivered' = delivered + 1
    /\ pc' = "done"
    /\ UNCHANGED <<now, feeds, env, general_all, mobile_all, siphoned, gaming_pool,
                   general_pool, top_gaming, top_general, general_added, msg,
                   fn_in, fn_out>>

\* Lines 287-288 within line 319: a post that raises (the request fails, or
\* raise_for_status); tenacity waits and tries again, or gives up and the
\* error leaves build_and_send.
SendFail ==
    /\ pc = "sending"
    /\ attempt' = attempt + 1
    /\ pc' = IF GivesUp(attempt') THEN "failed" ELSE "sending"
    /\ UNCHANGED <<now, feeds, env, general_all, mobile_all, siphoned, gaming_pool,
                   general_pool, top_gaming, top_general, general_added, msg,
                   delivered, fn_in, fn_out>>

-----------------------------------------------------------------------------
(* Inputs of the functions studied on their own                             *)

MaxPool == 3

MaxWant == 3

\* The hours at which a run may read the clock. Entries are published at
\* hour 0 or 2, so an entry can be 1 to 3 hours old, or dated in the future.
Clocks == {1, 3}

\* Entries for the pools of pick_top and pad_to_three: three that share the
\* fingerprint "ac" (two of them with the same score, one older), three other
\* fingerprints, and three that are invalid (no title, a link that is only a
\* query string, a title of whitespace).
PoolEntries ==
    { Entry(<<"a">>, <<"c">>, <<>>, NoDate),
      Entry(<<"a">>, <<"c">>, <<>>, <<0>>),
      Entry(<<"a", " ">>, <<"c", "?", "q">>, <<>>, <<0>>),
      Entry(<<"b">>, <<"c">>, <<"s">>, <<0>>),
      Entry(<<"b">>, <<"d">>, <<>>, NoDate),
      Entry(<<"a">>, <<"d">>, <<>>, <<2>>),
      Entry(<<>>, <<"c">>, <<"s">>, <<0>>),
      Entry(<<"a">>, <<"?", "q">>, <<>>, <<0>>),
      Entry(<<" ">>, <<"d">>, <<>>, NoDate) }

MaxSel == 3

MaxPadPool == 2

\* Entries for the selections and pools of pad_to_three: two of fingerprint
\* "ac", one of fingerprint "bd", and two invalid ones of fingerprint "c".
PadEntries ==
    { Entry(<<"a">>, <<"c">>, <<>>, NoDate),
      Entry(<<"a", " ">>, <<"c", "?", "q">>, <<>>, <<0>>),
      Entry(<<"b">>, <<"d">>, <<>>, NoDate),
      Entry(<<>>, <<"c">>, <<"s">>, <<0>>),
      Entry(<<" ">>, <<"c", "?">>, <<>>, NoDate) }

\* The variables of build_and_send, for a specification that studies one
\* function: none of them is used.
RunUnused ==
    /\ now = 0
    /\ feeds = <<>>
    /\ env = <<>>
    /\ general_all = <<>>
    /\ mobile_all = <<>>
    /\ siphoned = <<>>
    /\ gaming_pool = <<>>
    /\ general_pool = <<>>
    /\ top_gaming = <<>>
    /\ top_general = <<>>
    /\ general_added = <<>>
    /\ msg = None
    /\ attempt = 0
    /\ delivered = 0

-----------------------------------------------------------------------------
(* SpecPick: pick_top on every pool, every want and every clock             *)

InitPick ==
    /\ pc = "pick_call"
    /\ fn_in \in [items : SeqsUpTo(PoolEntries, MaxPool), want : 0..MaxWant,
                  clock : Clocks]
    /\ fn_out = <<>>
    /\ RunUnused

PickTopCall ==
    /\ pc = "pick_call"
    /\ pc' = "pick_done"
    /\ fn_out' = pick_top(fn_in.items, fn_in.want, fn_in.clock)
    /\ UNCHANGED <<fn_in, runVars>>

NextPick == PickTopCall

SpecPick == InitPick /\ [][NextPick]_vars

\* The positions of `items` that hold a valid entry of fingerprint h.
GroupOf(items, h) ==
    {j \in 1..Len(items) : IsValid(items[j]) /\ Fingerprint(items[j]) = h}

\* The first position of group g whose entry has the highest score of g.
FirstMax(items, g, clock) ==
    CHOOSE i \in g :
        /\ \A j \in g : score_item(items[j], clock) <= score_item(items[i], clock)
        /\ \A j \in g : score_item(items[j], clock) = score_item(items[i], clock) => i <= j

\* The fingerprints of the valid entries of `items`.
ValidFingerprints(items) ==
    {Fingerprint(items[j]) : j \in {k \in 1..Len(items) : IsValid(items[k])}}

\* C3: pick_top returns at most one entry per fingerprint, and the entry it
\* returns for a fingerprint is, among the valid entries of the pool with that
\* fingerprint, one of maximum score, and the first of the pool with that score.
C3_DedupKeepsFirstMax ==
    pc = "pick_done" =>
        LET items == fn_in.items
            r     == fn_out
        IN  /\ \A i, j \in 1..Len(r) : i # j => Fingerprint(r[i]) # Fingerprint(r[j])
            /\ \A i \in 1..Len(r) :
                   LET g == GroupOf(items, Fingerprint(r[i]))
                   IN  g # {} /\ r[i] = items[FirstMax(items, g, fn_in.clock)]
            /\ fn_in.want >= Cardinality(ValidFingerprints(items))
                   => {Fingerprint(r[i]) : i \in 1..Len(r)} = ValidFingerprints(items)

\* C3's case: a pool whose first entry of a fingerprint scores lower than the
\* second and the third, which tie and are different entries; the second is
\* the one returned.
C3_Witness ==
    /\ pc = "pick_done"
    /\ Len(fn_in.items) = 3
    /\ LET items == fn_in.items
           sc(e) == score_item(e, fn_in.clock)
       IN  /\ \A j \in 1..3 : IsValid(items[j]) /\ Fingerprint(items[j]) = Fingerprint(items[1])
           /\ sc(items[1]) < sc(items[2])
           /\ sc(items[2]) = sc(items[3])
           /\ items[2] # items[3]
           /\ fn_out = <<items[2]>>

\* C4: for want >= 0, pick_top returns min(want, n) entries, n the number of
\* distinct fingerprints of valid entries; they are in descending score order,
\* each is the entry kept for its fingerprint, and no entry kept for a
\* fingerprint and left out scores higher than one returned.
C4_TopKSortedTruncated ==
    pc = "pick_done" =>
        LET items == fn_in.items
            r     == fn_out
            sc(e) == score_item(e, fn_in.clock)
            fps   == ValidFingerprints(items)
            kept  == {items[FirstMax(items, GroupOf(items, h), fn_in.clock)] : h \in fps}
        IN  /\ Len(r) = Min(fn_in.want, Cardinality(fps))
            /\ \A i \in 1..(Len(r) - 1) : sc(r[i]) >= sc(r[i + 1])
            /\ Range(r) \subseteq kept
            /\ \A e \in kept \ Range(r) : \A i \in 1..Len(r) : sc(r[i]) >= sc(e)
            /\ items = <<>> => r = <<>>

\* C4's case: three fingerprints, two of them asked for, the two returned
\* differ in score and the one left out scores lower than both; the pool also
\* holds nothing invalid, so the cut is the truncation's.
C4_Witness ==
    /\ pc = "pick_done"
    /\ fn_in.want = 2
    /\ Cardinality(ValidFingerprints(fn_in.items)) = 3
    /\ Len(fn_out) = 2
    /\ score_item(fn_out[1], fn_in.clock) > score_item(fn_out[2], fn_in.clock)
    /\ \E j \in 1..3 : score_item(fn_in.items[j], fn_in.clock) < score_item(fn_out[2], fn_in.clock)

-----------------------------------------------------------------------------
(* SpecPad: pad_to_three on every selection and every fallback pool         *)

InitPad ==
    /\ pc = "pad_call"
    /\ fn_in \in [items : SeqsUpTo(PadEntries, MaxSel),
                  pool : SeqsUpTo(PadEntries, MaxPadPool)]
    /\ fn_out = <<>>
    /\ RunUnused

PadToThreeCall ==
    /\ pc = "pad_call"
    /\ pc' = "pad_done"
    /\ fn_out' = pad_to_three(fn_in.items, fn_in.pool)
    /\ UNCHANGED <<fn_in, runVars>>

NextPad == PadToThreeCall

SpecPad == InitPad /\ [][NextPad]_vars

\* No two positions of sel hold entries of the same fingerprint.
DistinctFingerprints(sel) ==
    \A i, j \in 1..Len(sel) : i # j => Fingerprint(sel[i]) # Fingerprint(sel[j])

\* C5: padding a selection of pairwise distinct fingerprints gives a
\* selection of pairwise distinct fingerprints; the original entries are its
\* prefix, unchanged, and each entry after them comes from the pool and has a
\* fingerprint that no entry before it has.
C5_PadKeepsDistinct ==
    pc = "pad_done" =>
        LET items == fn_in.items
            r     == fn_out
        IN  DistinctFingerprints(items) =>
                /\ DistinctFingerprints(r)
                /\ Len(r) >= Len(items)
                /\ SubSeq(r, 1, Len(items)) = items
                /\ \A i \in (Len(items) + 1)..Len(r) :
                       /\ r[i] \in Range(fn_in.pool)
                       /\ \A j \in 1..(i - 1) : Fingerprint(r[j]) # Fingerprint(r[i])

\* C5's case: a selection of one entry and a pool of two different entries
\* that share a fingerprint the selection does not have: the first is
\* appended and the second, a duplicate of what the pass appended, is not.
C5_Witness ==
    /\ pc = "pad_done"
    /\ Len(fn_in.items) = 1
    /\ Len(fn_in.pool) = 2
    /\ fn_in.pool[1] # fn_in.pool[2]
    /\ Fingerprint(fn_in.pool[1]) = Fingerprint(fn_in.pool[2])
    /\ Fingerprint(fn_in.pool[1]) # Fingerprint(fn_in.items[1])
    /\ fn_out = fn_in.items \o <<fn_in.pool[1]>>

-----------------------------------------------------------------------------
(* SpecHash: hash_item on every pair of entries                             *)

HashTitles == {<<"a">>, <<"a", "b">>, <<"a", " ">>, <<>>}

HashLinks == {<<"b", "c">>, <<"c">>, <<"c", "?", "q">>, <<>>}

HashEntries == {Entry(t, l, <<>>, NoDate) : t \in HashTitles, l \in HashLinks}

InitHash ==
    /\ pc = "hash_call"
    /\ fn_in \in [e1 : HashEntries, e2 : HashEntries]
    /\ fn_out = <<>>
    /\ RunUnused

HashItemCall ==
    /\ pc = "hash_call"
    /\ pc' = "hash_done"
    /\ fn_out' = <<hash_item(normalize_text(fn_in.e1.title), fn_in.e1.link),
                   hash_item(normalize_text(fn_in.e2.title), fn_in.e2.link)>>
    /\ UNCHANGED <<fn_in, runVars>>

NextHash == HashItemCall

SpecHash == InitHash /\ [][NextHash]_vars

\* C6: two entries have equal fingerprints if and only if their normalized
\* titles are equal and their canonical links are equal.
C6_FingerprintIffTitleAndLink ==
    pc = "hash_done" =>
        ((fn_out[1] = fn_out[2])
            <=> /\ normalize_text(fn_in.e1.title) = normalize_text(fn_in.e2.title)
                /\ canonical_url(fn_in.e1.link) = canonical_url(fn_in.e2.link))

-----------------------------------------------------------------------------
(* SpecShorten: shorten_url on every URL and every pair of provider answers *)

ShortenUrls == {<<>>, <<"u">>, <<"u", "?", "q">>, <<"?", "q">>}

ProviderTexts == {Http \o <<"x">>, Http \o <<"x", "\n">>, <<"E">>, <<" ">> \o Http}

ProviderAnswers ==
    {Raises(x) : x \in RequestExceptions}
        \cup {Response(ok, t) : ok \in BOOLEAN, t \in ProviderTexts}

InitShorten ==
    /\ pc = "shorten_call"
    /\ fn_in \in [url : ShortenUrls, isgd : ProviderAnswers, tiny : ProviderAnswers]
    /\ fn_out = <<>>
    /\ RunUnused

ShortenUrlCall ==
    /\ pc = "shorten_call"
    /\ pc' = "shorten_done"
    /\ fn_out' = shorten_url(fn_in.url, fn_in.isgd, fn_in.tiny)
    /\ UNCHANGED <<fn_in, runVars>>

NextShorten == ShortenUrlCall

SpecShorten == InitShorten /\ [][NextShorten]_vars

\* A provider failed: the request raised, the status was an error, or the
\* text does not start with "http".
ProviderFailed(resp) ==
    resp.kind = "raise" \/ ~resp.ok \/ ~StartsWith(resp.text, Http)

\* C9: one call of shorten_url contacts is.gd once, then tinyurl once and only
\* if is.gd failed; it never raises; and when both providers fail it returns
\* the URL with its query string stripped.
C9_ShortenFallsBack ==
    pc = "shorten_done" =>
        /\ ~fn_out.raised
        /\ fn_out.calls \in {<<"is.gd">>, <<"is.gd", "tinyurl">>}
        /\ (fn_out.calls = <<"is.gd", "tinyurl">>) <=> ProviderFailed(fn_in.isgd)
        /\ (ProviderFailed(fn_in.isgd) /\ ProviderFailed(fn_in.tiny))
               => fn_out.ret = canonical_url(fn_in.url)

\* C9's case: is.gd refuses the connection, tinyurl answers 200 with a text
\* that is no URL, and the URL has a query string: both were contacted, once,
\* and the URL comes back without its query string.
C9_Witness ==
    /\ pc = "shorten_done"
    /\ fn_in.url = <<"u", "?", "q">>
    /\ fn_in.isgd = Raises("ConnectionError")
    /\ fn_in.tiny = Response(TRUE, <<"E">>)
    /\ fn_out.calls = <<"is.gd", "tinyurl">>
    /\ fn_out.ret = <<"u">>

-----------------------------------------------------------------------------
(* SpecSelect: build_and_send from the fetched pools to the two selections, *)
(* on every pair of pools                                                   *)

MaxGeneral == 3

MaxMobile == 1

\* Entries for the fetched pools: a valid one, two invalid ones of fingerprint
\* "c", one with a keyword in its title, and one whose title and summary hold
\* a keyword only when they are put together without the space.
SelectEntries ==
    { Entry(<<"a">>, <<"c">>, <<>>, NoDate),
      Entry(<<>>, <<"c">>, <<>>, NoDate),
      Entry(<<" ">>, <<"c", "?", "q">>, <<"s">>, <<0>>),
      Entry(<<"I", "o", "s">>, <<"d">>, <<>>, <<0>>),
      Entry(<<"i">>, <<"d">>, <<"o", "S">>, NoDate) }

InitSelect ==
    /\ pc = "fetched"
    /\ now \in Clocks
    /\ general_all \in SeqsUpTo(SelectEntries, MaxGeneral)
    /\ mobile_all \in SeqsUpTo(SelectEntries, MaxMobile)
    /\ feeds = <<>>
    /\ env = <<>>
    /\ siphoned = <<>>
    /\ gaming_pool = <<>>
    /\ general_pool = <<>>
    /\ top_gaming = <<>>
    /\ top_general = <<>>
    /\ general_added = <<>>
    /\ msg = None
    /\ attempt = 0
    /\ delivered = 0
    /\ fn_in = <<>>
    /\ fn_out = <<>>

NextSelect == Route \/ Select \/ PadGaming \/ PadGeneral

SpecSelect == InitSelect /\ [][NextSelect]_vars

\* The fingerprints of the entries of a selection.
FingerprintsOf(sel) == {Fingerprint(sel[i]) : i \in 1..Len(sel)}

\* C1: no entry that padding appended to the general selection has the
\* fingerprint of an entry of the final gaming selection.
C1_GeneralPaddingAvoidsGaming ==
    pc = "padded" =>
        \A i \in 1..Len(general_added) :
            Fingerprint(general_added[i]) \notin FingerprintsOf(top_gaming)

\* C2: an entry whose normalized title or canonical link is empty is in no
\* selection, neither as pick_top returns it nor after padding.
C2_NoInvalidEntrySelected ==
    pc \in {"selected", "gaming_padded", "padded"} =>
        \A e \in Range(top_gaming) \cup Range(top_general) : IsValid(e)

\* C10: after padding, the gaming selection and the general selection have
\* no fingerprint in common.
C10_SectionsShareNoStory ==
    pc = "padded" =>
        FingerprintsOf(top_gaming) \cap FingerprintsOf(top_general) = {}

\* The entries of pool at the positions where Test holds, in pool order.
RECURSIVE Where(_, _)
Where(pool, keep) ==
    IF pool = <<>> THEN <<>>
    ELSE (IF Head(pool) \in keep THEN <<Head(pool)>> ELSE <<>>) \o Where(Tail(pool), keep)

\* The siphoning is a partition of general_all, in order, by the set `gaming`
\* of the entries that count as matching.
PartitionedBy(gaming) ==
    /\ Len(siphoned) + Len(general_pool) = Len(general_all)
    /\ siphoned = Where(general_all, gaming)
    /\ general_pool = Where(general_all, Range(general_all) \ gaming)
    /\ Range(siphoned) \cap Range(general_pool) = {}

\* C7 as stated: siphoned holds, in order, the entries whose lower-cased
\* title + summary holds a keyword, general_pool the others, and the lengths
\* add up.
C7_PartitionByTitlePlusSummary ==
    pc \notin {"start", "fetched"} =>
        PartitionedBy({e \in Range(general_all) :
                          \E k \in Keywords : Contains(Lower(e.title \o e.summary), k)})

\* C7, amended: siphoned holds, in order, the entries whose lower-cased
\* title, a space and summary hold a keyword, general_pool holds the others in
\* order, no entry is in both, and the lengths add up to that of general_all.
C7_PartitionByKeyword ==
    pc \notin {"start", "fetched"} =>
        PartitionedBy({e \in Range(general_all) :
                          \E k \in Keywords :
                              Contains(Lower(e.title \o <<" ">> \o e.summary), k)})

\* C7's case: a general pool that holds the same matching entry twice, around
\* an entry that does not match.
C7_Witness ==
    /\ pc = "routed"
    /\ Len(general_all) = 3
    /\ general_all[1] = general_all[3]
    /\ MatchesKeyword(general_all[1])
    /\ ~MatchesKeyword(general_all[2])
    /\ siphoned = <<general_all[1], general_all[3]>>
    /\ general_pool = <<general_all[2]>>

-----------------------------------------------------------------------------
(* Spec: a whole run of build_and_send, from the feeds to the delivery      *)

MaxFeedLen == 1

\* Entries for the feeds: a valid one, an invalid one, one with a keyword.
FeedEntries ==
    { Entry(<<"a">>, <<"c", "?", "q">>, <<"s", " ", "t">>, <<0>>),
      Entry(<<>>, <<"c">>, <<>>, NoDate),
      Entry(<<"I", "o", "s">>, <<"d">>, <<>>, <<2>>) }

FeedAnswers == {FeedFails} \cup {FeedGives(es) : es \in SeqsUpTo(FeedEntries, MaxFeedLen)}

\* How the services answer during one run: the summarizer gives nothing or a
\* text, each shortener refuses the connection or gives a short URL.
EnvAnswers ==
    [openai : {OpenAiNone, OpenAiText(<<"o", " ", " ", "k">>)},
     isgd   : {Raises("ConnectionError"), Response(TRUE, Http \o <<"1">>)},
     tiny   : {Raises("Timeout"), Response(TRUE, Http \o <<"2", "\n">>)}]

Init ==
    /\ pc = "start"
    /\ now \in Clocks
    /\ feeds \in [general : [1..2 -> FeedAnswers], mobile : [1..1 -> FeedAnswers]]
    /\ env \in EnvAnswers
    /\ general_all = <<>>
    /\ mobile_all = <<>>
    /\ siphoned = <<>>
    /\ gaming_pool = <<>>
    /\ general_pool = <<>>
    /\ top_gaming = <<>>
    /\ top_general = <<>>
    /\ general_added = <<>>
    /\ msg = None
    /\ attempt = 0
    /\ delivered = 0
    /\ fn_in = <<>>
    /\ fn_out = <<>>

Next ==
    \/ Fetch
    \/ Route
    \/ Select
    \/ PadGaming
    \/ PadGeneral
    \/ Build
    \/ SendOk
    \/ SendFail

Spec == Init /\ [][Next]_vars

=============================================================================
